---- MODULE Spec2Model ----
(***************************************************************************)
(* AutoSEO: sitemap extraction (parse_sitemap.py) and the URL submission   *)
(* adapters for Baidu (submit_baidu.py, parse_sitemap.py) and Bing         *)
(* (submit_bing.py).                                                       *)
(*                                                                         *)
(* Text is modelled by TLA+ strings, handled character by character with   *)
(* Len, SubSeq and \o.  The Chinese literals of the log messages are       *)
(* written as lower-case English glosses; every interpolated value is kept *)
(* at its place in the message.                                            *)
(***************************************************************************)
EXTENDS Integers, Sequences, FiniteSets, TLC

VARIABLES
  prog,       \* the entry point that runs: parse_sitemap, submit_baidu, submit_bing
  pc,         \* its position
  args,       \* the parsed command line: site, token, verbose, submit, random
  file,       \* the URL-list file (urls.txt): NoFile, or its text
  log,        \* the log records emitted by this process, in order
  requests,   \* the HTTP requests issued by this process, in order
  responses,  \* what the network answered to each of them
  urls,       \* get_sitemap_urls: the list `urls`
  soup,       \* get_sitemap_urls: the parsed top-level document
  idx,        \* get_sitemap_urls: how many <sitemap> entries the loop has passed
  urls_list,  \* the adapter's list of URLs read from the file
  written,    \* the list save_urls_to_file was last called with and wrote in full
  exitCode    \* the exit status of the process, NoExit while it runs

vars == <<prog, pc, args, file, log, requests, responses, urls, soup, idx,
          urls_list, written, exitCode>>

NoFile == [exists |-> FALSE]
NoExit == -1
NoLoc == [loc |-> FALSE]

----------------------------------------------------------------------------
(* Python str operations                                                   *)

Char(s, i) == SubSeq(s, i, i)

\* the whitespace str.strip() removes, as far as the model's alphabets go
IsSpace(c) == c \in {" ", "\n", "\t", "\r"}

RECURSIVE LStrip(_)
LStrip(s) == IF s # "" /\ IsSpace(Char(s, 1)) THEN LStrip(SubSeq(s, 2, Len(s))) ELSE s

RECURSIVE RStrip(_)
RStrip(s) ==
  IF s # "" /\ IsSpace(Char(s, Len(s))) THEN RStrip(SubSeq(s, 1, Len(s) - 1)) ELSE s

Strip(s) == RStrip(LStrip(s))

RECURSIVE RStripChar(_, _)
RStripChar(s, c) ==
  IF s # "" /\ Char(s, Len(s)) = c THEN RStripChar(SubSeq(s, 1, Len(s) - 1), c) ELSE s

StartsWith(s, p) == Len(s) >= Len(p) /\ SubSeq(s, 1, Len(p)) = p

EndsWith(s, p) == Len(s) >= Len(p) /\ SubSeq(s, Len(s) - Len(p) + 1, Len(s)) = p

Contains(s, t) == \E i \in 1..(Len(s) - Len(t) + 1) : SubSeq(s, i, i + Len(t) - 1) = t

\* s.replace(old, new) for a non-empty old: leftmost, non-overlapping occurrences
RECURSIVE Replace(_, _, _)
Replace(s, old, new) ==
  IF Len(s) < Len(old) THEN s
  ELSE IF StartsWith(s, old)
       THEN new \o Replace(SubSeq(s, Len(old) + 1, Len(s)), old, new)
       ELSE Char(s, 1) \o Replace(SubSeq(s, 2, Len(s)), old, new)

\* s.split(sep) for a one-character sep
RECURSIVE SplitAcc(_, _, _)
SplitAcc(s, sep, cur) ==
  IF s = "" THEN <<cur>>
  ELSE IF Char(s, 1) = sep
       THEN <<cur>> \o SplitAcc(SubSeq(s, 2, Len(s)), sep, "")
       ELSE SplitAcc(SubSeq(s, 2, Len(s)), sep, cur \o Char(s, 1))

Split(s, sep) == SplitAcc(s, sep, "")

\* sep.join(parts)
RECURSIVE Join(_, _)
Join(parts, sep) ==
  IF parts = <<>> THEN ""
  ELSE IF Len(parts) = 1 THEN parts[1]
       ELSE parts[1] \o sep \o Join(Tail(parts), sep)

\* s.split(): the maximal runs of non-whitespace
RECURSIVE WordsAcc(_, _)
WordsAcc(s, cur) ==
  IF s = "" THEN (IF cur = "" THEN <<>> ELSE <<cur>>)
  ELSE IF IsSpace(Char(s, 1))
       THEN (IF cur = "" THEN <<>> ELSE <<cur>>) \o WordsAcc(SubSeq(s, 2, Len(s)), "")
       ELSE WordsAcc(SubSeq(s, 2, Len(s)), cur \o Char(s, 1))

Words(s) == WordsAcc(s, "")

\* iterating a text file: the lines, each with its line end when it has one
RECURSIVE FileLinesAcc(_, _)
FileLinesAcc(s, cur) ==
  IF s = "" THEN (IF cur = "" THEN <<>> ELSE <<cur>>)
  ELSE IF Char(s, 1) = "\n"
       THEN <<cur \o "\n">> \o FileLinesAcc(SubSeq(s, 2, Len(s)), "")
       ELSE FileLinesAcc(SubSeq(s, 2, Len(s)), cur \o Char(s, 1))

FileLines(s) == FileLinesAcc(s, "")

NonBlank(s) == Strip(s) # ""

\* [x.strip() for x in parts if x.strip()]
StripNonBlank(parts) ==
  LET kept == SelectSeq(parts, NonBlank) IN [i \in 1..Len(kept) |-> Strip(kept[i])]

\* urllib.parse.quote_plus, on the characters of the model's alphabets
QuoteChar(c) ==
  CASE c = " " -> "+"
    [] c = ":" -> "%3A"
    [] c = "/" -> "%2F"
    [] c = "*" -> "%2A"
    [] c = "\n" -> "%0A"
    [] OTHER -> c

RECURSIVE QuotePlus(_)
QuotePlus(s) == IF s = "" THEN "" ELSE QuoteChar(Char(s, 1)) \o QuotePlus(SubSeq(s, 2, Len(s)))

\* the sequences over the set S of length at most n
RECURSIVE SeqsUpTo(_, _)
SeqsUpTo(S, n) ==
  IF n = 0 THEN {<<>>}
  ELSE LET P == SeqsUpTo(S, n - 1) IN P \cup {Append(p, x) : p \in P, x \in S}

----------------------------------------------------------------------------
(* Logging and HTTP                                                        *)

Rec(level, msg) == [level |-> level, msg |-> msg]

Request(method, url, body) == [method |-> method, url |-> url, body |-> body]

EmptyDoc == [urls |-> <<>>, sitemaps |-> <<>>]

\* a response that arrived: its status, its text (a POST's answer) and the
\* document its content parses to (a GET's answer)
Response(status, text, doc) ==
  [error |-> "", status |-> status, text |-> text, doc |-> doc]

\* no response: requests raised a RequestException, a connection failure
\* ("connection") or a timeout ("timeout")
Failure(cause) == [error |-> cause, status |-> 0, text |-> "", doc |-> EmptyDoc]

\* str(e) of the RequestException that requests raises for a request to
\* host + path_query.  A connection failure is reported by urllib3 as
\* "Max retries exceeded with url: <path and query>"; a timeout names the host.
RequestExceptionText(cause, host, path_query) ==
  IF cause = "connection"
  THEN "HTTPConnectionPool(host='" \o host \o "'): Max retries exceeded with url: "
         \o path_query
  ELSE "HTTPConnectionPool(host='" \o host \o "'): Read timed out. (read timeout=30)"

\* response.raise_for_status(): an HTTPError for 4xx and 5xx
RaisesForStatus(status) == status >= 400 /\ status < 600

\* what a submit function leaves behind: the records it logged, the requests
\* it issued with their answers, and its list of URLs
Outcome(l, rq, rs, ul) == [log |-> l, requests |-> rq, responses |-> rs, urls_list |-> ul]

----------------------------------------------------------------------------
(* The credential mask and the site normalizations                         *)

\* token[:4] + "***" + token[-4:] if len(token) > 8 else "***"
MaskToken(token) ==
  IF Len(token) > 8
  THEN SubSeq(token, 1, 4) \o "***" \o SubSeq(token, Len(token) - 3, Len(token))
  ELSE "***"

\* submit_baidu.py: strip, drop one scheme prefix, drop the trailing slashes
BaiduSite(site_url) ==
  LET s == Strip(site_url)
      t == IF StartsWith(s, "https://") THEN SubSeq(s, 9, Len(s))
           ELSE IF StartsWith(s, "http://") THEN SubSeq(s, 8, Len(s))
           ELSE s
  IN  RStripChar(t, "/")

\* parse_sitemap.py and submit_bing.py: strip, prepend https:// when no scheme
SchemeSite(site_url) ==
  LET s == Strip(site_url)
  IN  IF StartsWith(s, "http://") \/ StartsWith(s, "https://") THEN s ELSE "https://" \o s

\* urllib.parse.urlencode({'site': site, 'token': token})
UrlEncode(site, token) == "site=" \o QuotePlus(site) \o "&token=" \o QuotePlus(token)

BaiduHost == "data.zz.baidu.com"

BingHost == "ssl.bing.com"

\* k draws with replacement (random.choices)
SamplePicksWithReplacement(n, k) == [1..k -> 1..n]

\* random.sample(population of n, k): k distinct positions, in any order
SamplePicks(n, k) ==
  {p \in [1..k -> 1..n] : \A i, j \in 1..k : i # j => p[i] # p[j]}

----------------------------------------------------------------------------
(* The submission functions.  Each is the whole body of the function: the  *)
(* try block up to the point where it ends or raises, then the handler.    *)
(* resp is the network's answer to the POST, should one be sent.           *)

\* PostLogs with the failure branch reduced to a fixed message
PostLogsNoDetail(resp, host, path_query, engine) ==
  IF resp.error # ""
  THEN <<Rec("ERROR", "network request error: "
                        \o RequestExceptionText(resp.error, host, path_query))>>
  ELSE IF resp.status = 200
       THEN <<Rec("INFO", "submitted URL to " \o engine \o ": " \o resp.text)>>
       ELSE <<Rec("ERROR", "submitting URL to " \o engine \o " failed")>>

\* requests.post(...) and the lines after it: a RequestException is caught and
\* logged with str(e); otherwise the status decides between info and error
PostLogs(resp, host, path_query, engine) ==
  IF resp.error # ""
  THEN <<Rec("ERROR", "network request error: "
                        \o RequestExceptionText(resp.error, host, path_query))>>
  ELSE IF resp.status = 200
       THEN <<Rec("INFO", "submitted URL to " \o engine \o ": " \o resp.text)>>
       ELSE <<Rec("ERROR", "submitting URL to " \o engine \o " failed: HTTP "
                             \o ToString(resp.status) \o " - " \o resp.text)>>

\* except Exception as e: logger.error(f"...: {str(e)}")
CaughtLog(engine, text) ==
  Rec("ERROR", "error while submitting URL to " \o engine \o ": " \o text)

\* submit_baidu.py: the list parsed from the text of the file
BaiduUrlsList(text) == StripNonBlank(Split(Strip(text), "\n"))

\* submit_baidu.py submit_to_baidu; pick is the draw of random.sample
submit_to_baidu(site_url, token, urls_file, verbose, random_count, resp, pick) ==
  IF site_url = "" \/ token = ""
  THEN Outcome(<<CaughtLog("baidu", "site_url, token and urls_file must not be empty")>>,
               <<>>, <<>>, <<>>)
  ELSE IF ~urls_file.exists
  THEN Outcome(<<CaughtLog("baidu", "URL file does not exist: urls.txt")>>, <<>>, <<>>, <<>>)
  ELSE
    LET masked_token == MaskToken(token)
        site == BaiduSite(site_url)
        path_query == "/urls?" \o UrlEncode(site, token)
        api_url == "http://" \o BaiduHost \o path_query
        log1 == IF verbose
                THEN << Rec("INFO", "submitting URL to baidu API (Token: " \o masked_token \o ")"),
                        Rec("INFO", "site URL: " \o site),
                        Rec("INFO", "API URL: " \o Replace(api_url, token, masked_token)) >>
                ELSE <<>>
        urls_data == Strip(urls_file.text)
    IN
    IF urls_data = ""
    THEN Outcome(log1 \o <<Rec("WARNING", "URL file is empty, no URL to submit")>>,
                 <<>>, <<>>, <<>>)
    ELSE
      LET all == BaiduUrlsList(urls_file.text)
          original_count == Len(all)
          sampling == random_count > 0 /\ original_count > random_count
          list == IF sampling THEN [i \in 1..random_count |-> all[pick[i]]] ELSE all
          log2 == IF random_count > 0
                  THEN IF sampling
                       THEN <<Rec("INFO", "random mode: from " \o ToString(original_count)
                                            \o " URL picked " \o ToString(random_count))>>
                       ELSE <<Rec("INFO", "random mode: URL total(" \o ToString(original_count)
                                            \o ") not above " \o ToString(random_count)
                                            \o ", submitting all")>>
                  ELSE <<>>
          body == Join(list, "\n")
          log3 == IF verbose
                  THEN << Rec("INFO", "number of URL submitted: " \o ToString(Len(list))),
                          Rec("INFO", "sending request to baidu API..."),
                          Rec("INFO", "request URL: " \o Replace(api_url, token, masked_token)),
                          Rec("INFO", "request headers: {'Content-Type': 'text/plain'}"),
                          Rec("INFO", "request body (URLs):\n" \o body) >>
                  ELSE <<>>
      IN  Outcome(log1 \o log2 \o log3 \o PostLogs(resp, BaiduHost, path_query, "baidu"),
                  <<Request("POST", api_url, body)>>, <<resp>>, list)

\* parse_sitemap.py submit_to_baidu
parse_sitemap_submit_to_baidu(site_url, token, urls_file, verbose, resp) ==
  IF site_url = "" \/ token = ""
  THEN Outcome(<<CaughtLog("baidu", "site_url, token and urls_file must not be empty")>>,
               <<>>, <<>>, <<>>)
  ELSE
    LET masked_token == MaskToken(token)
        site == SchemeSite(site_url)
        path_query == "/urls?" \o UrlEncode(site, token)
        api_url == "http://" \o BaiduHost \o path_query
        log1 == IF verbose
                THEN << Rec("INFO", "submitting URL to baidu API (Token: " \o masked_token \o ")"),
                        Rec("INFO", "site URL: " \o site),
                        Rec("INFO", "API URL: " \o Replace(api_url, token, masked_token)) >>
                ELSE <<>>
    IN
    IF ~urls_file.exists
    THEN \* open() raises FileNotFoundError
         Outcome(log1 \o <<CaughtLog("baidu", "[Errno 2] No such file or directory: 'urls.txt'")>>,
                 <<>>, <<>>, <<>>)
    ELSE
      LET urls_data == urls_file.text
          log2 == IF verbose
                  THEN << Rec("INFO", "number of URL submitted: "
                                        \o ToString(Len(Words(urls_data)))),
                          Rec("INFO", "sending request to baidu API...") >>
                  ELSE <<>>
      IN  Outcome(log1 \o log2 \o PostLogs(resp, BaiduHost, path_query, "baidu"),
                  <<Request("POST", api_url, urls_data)>>, <<resp>>, <<>>)

\* json.dumps of a str, for the characters of the model's alphabets
RECURSIVE JsonEscape(_)
JsonEscape(s) ==
  IF s = "" THEN ""
  ELSE (CASE Char(s, 1) = "\"" -> "\\\""
          [] Char(s, 1) = "\\" -> "\\\\"
          [] Char(s, 1) = "\n" -> "\\n"
          [] OTHER -> Char(s, 1)) \o JsonEscape(SubSeq(s, 2, Len(s)))

JsonStr(s) == "\"" \o JsonEscape(s) \o "\""

\* json.dumps({"siteUrl": site_url, "urlList": urls}, ensure_ascii=False)
JsonDumps(site_url, list) ==
  "{\"siteUrl\": " \o JsonStr(site_url) \o ", \"urlList\": ["
    \o Join([i \in 1..Len(list) |-> JsonStr(list[i])], ", ") \o "]}"

\* submit_bing.py submit_to_bing
submit_to_bing(site_url, api_key, urls_file, verbose, resp) ==
  IF site_url = "" \/ api_key = ""
  THEN Outcome(<<CaughtLog("bing", "site_url, api_key and urls_file must not be empty")>>,
               <<>>, <<>>, <<>>)
  ELSE IF ~urls_file.exists
  THEN Outcome(<<CaughtLog("bing", "URL file does not exist: urls.txt")>>, <<>>, <<>>, <<>>)
  ELSE
    LET masked_key == MaskToken(api_key)
        site == SchemeSite(site_url)
        path_query == "/webmaster/api.svc/json/SubmitUrlbatch?apikey=" \o api_key
        api_url == "https://" \o BingHost \o path_query
        log1 == IF verbose
                THEN << Rec("INFO", "submitting URL to bing API (API Key: " \o masked_key \o ")"),
                        Rec("INFO", "site URL: " \o site),
                        Rec("INFO", "API URL: " \o Replace(api_url, api_key, masked_key)) >>
                ELSE <<>>
        list == StripNonBlank(FileLines(urls_file.text))
    IN
    IF list = <<>>
    THEN Outcome(log1 \o <<Rec("WARNING", "URL file is empty, no URL to submit")>>,
                 <<>>, <<>>, list)
    ELSE
      LET body == JsonDumps(site, list)
          log2 == IF verbose
                  THEN << Rec("INFO", "number of URL submitted: " \o ToString(Len(list))),
                          Rec("INFO", "sending request to bing API..."),
                          Rec("DEBUG", "request body: " \o body) >>
                  ELSE <<>>
      IN  Outcome(log1 \o log2 \o PostLogs(resp, BingHost, path_query, "bing"),
                  <<Request("POST", api_url, body)>>, <<resp>>, list)

----------------------------------------------------------------------------
(* The entry points of the two submission tools                            *)

\* the command lines of an entry point: --submit exists for parse_sitemap only,
\* --random for submit_baidu only
ArgsOf(p, Sites, Tokens, Verboses, Submits, Randoms) ==
  [site : Sites, token : Tokens, verbose : Verboses,
   submit : IF p = "parse_sitemap" THEN Submits ELSE {FALSE},
   random : IF p = "submit_baidu" THEN Randoms ELSE {0}]

Banner == "=================================================="

\* setup_logging and the opening lines of main
Startup(title, log_file) ==
  << Rec("INFO", "log will be saved to file: " \o log_file),
     Rec("INFO", Banner),
     Rec("INFO", title),
     Rec("INFO", "log file: " \o log_file),
     Rec("INFO", Banner) >>

\* the closing lines of main
Finished == << Rec("INFO", Banner), Rec("INFO", "program finished"), Rec("INFO", Banner) >>

\* sys.exit() with the code left out
ExitZero(code) == pc' = "exit" /\ exitCode' = 0

\* sys.exit(code)
Exit(code) == pc' = "exit" /\ exitCode' = code

\* submit_baidu.py main, up to the credential check
submit_baidu_main ==
  /\ prog = "submit_baidu" /\ pc = "main"
  /\ IF args.token = ""
     THEN /\ log' = log \o Startup("baidu URL submit tool started", "submit_baidu.log")
                        \o <<Rec("ERROR", "submitting to baidu needs a token, give it by --token or BAIDU_TOKEN")>>
          /\ Exit(1)
     ELSE /\ log' = log \o Startup("baidu URL submit tool started", "submit_baidu.log")
          /\ pc' = "submit"
          /\ UNCHANGED exitCode
  /\ UNCHANGED <<prog, args, file, requests, responses, urls, soup, idx, urls_list, written>>

\* submit_baidu.py main: the call of submit_to_baidu and the rest of main
submit_baidu_submit(Resps) ==
  /\ prog = "submit_baidu" /\ pc = "submit"
  /\ \E resp \in Resps :
       LET n == IF file.exists THEN Len(BaiduUrlsList(file.text)) ELSE 0
           k == args.random
       IN  \E pick \in (IF k > 0 /\ n > k THEN SamplePicks(n, k) ELSE {<<>>}) :
             LET o == submit_to_baidu(args.site, args.token, file, args.verbose, k, resp, pick)
             IN  /\ log' = log \o o.log \o Finished
                 /\ requests' = requests \o o.requests
                 /\ responses' = responses \o o.responses
                 /\ urls_list' = o.urls_list
  /\ Exit(0)
  /\ UNCHANGED <<prog, args, file, urls, soup, idx, written>>

\* submit_bing.py main, up to the credential check
submit_bing_main ==
  /\ prog = "submit_bing" /\ pc = "main"
  /\ IF args.token = ""
     THEN /\ log' = log \o Startup("bing URL submit tool started", "submit_bing.log")
                        \o <<Rec("ERROR", "submitting to bing needs an API key, give it by --api-key or BING_API_KEY")>>
          /\ Exit(1)
     ELSE /\ log' = log \o Startup("bing URL submit tool started", "submit_bing.log")
          /\ pc' = "submit"
          /\ UNCHANGED exitCode
  /\ UNCHANGED <<prog, args, file, requests, responses, urls, soup, idx, urls_list, written>>

\* submit_bing.py main: the call of submit_to_bing and the rest of main
submit_bing_submit(Resps) ==
  /\ prog = "submit_bing" /\ pc = "submit"
  /\ \E resp \in Resps :
       LET o == submit_to_bing(args.site, args.token, file, args.verbose, resp)
       IN  /\ log' = log \o o.log \o Finished
           /\ requests' = requests \o o.requests
           /\ responses' = responses \o o.responses
           /\ urls_list' = o.urls_list
  /\ Exit(0)
  /\ UNCHANGED <<prog, args, file, urls, soup, idx, written>>

----------------------------------------------------------------------------
(* parse_sitemap.py                                                        *)

\* a <url> or <sitemap> element with a <loc> child of text t; NoLoc is one without
Loc(t) == [loc |-> TRUE, text |-> t]

HasLoc(entry) == entry.loc

\* an entry without <loc> appended as an empty text
LocTextsNoCheck(entries) ==
  [i \in 1..Len(entries) |-> IF entries[i].loc THEN entries[i].text ELSE ""]

\* for e in find_all(...): loc = e.find('loc'); if loc: urls.append(loc.text)
LocTexts(entries) ==
  LET kept == SelectSeq(entries, HasLoc) IN [i \in 1..Len(kept) |-> kept[i].text]

\* --sitemap, by default
SitemapUrl == "https://www.bonan.online/sitemap.xml"

\* str(e) of what requests.get / raise_for_status raised for url
GetExceptionText(resp, url) ==
  IF resp.error # ""
  THEN RequestExceptionText(resp.error, url, "/")
  ELSE ToString(resp.status) \o " Error for url: " \o url

\* requests.get without raise_for_status
GetFailsNetworkOnly(resp) == resp.error # ""

GetFails(resp) == resp.error # "" \/ RaisesForStatus(resp.status)

\* the <sitemap> entries are followed whatever the document holds
IsIndexAlways(list) == TRUE

\* if not urls: the document is taken for a sitemap index
IsIndex(list) == list = <<>>

\* parse_sitemap.py main, up to the credential check
parse_sitemap_main ==
  /\ prog = "parse_sitemap" /\ pc = "main"
  /\ IF args.submit /\ args.token = ""
     THEN /\ log' = log \o Startup("sitemap parse and baidu URL submit tool started", "logfile.log")
                        \o <<Rec("ERROR", "submitting to baidu needs a token, give it by --token or BAIDU_TOKEN")>>
          /\ Exit(1)
     ELSE /\ log' = log \o Startup("sitemap parse and baidu URL submit tool started", "logfile.log")
          /\ pc' = "fetch"
          /\ UNCHANGED exitCode
  /\ UNCHANGED <<prog, args, file, requests, responses, urls, soup, idx, urls_list, written>>

\* get_sitemap_urls: the GET of the sitemap URL and the scan for url/loc.  When
\* the GET fails the function logs the error and returns [], and main exits.
get_sitemap_urls_top(Resps) ==
  /\ prog = "parse_sitemap" /\ pc = "fetch"
  /\ \E resp \in Resps :
       LET log1 == IF args.verbose
                   THEN <<Rec("INFO", "fetching sitemap: " \o SitemapUrl)>> ELSE <<>>
       IN
       /\ requests' = Append(requests, Request("GET", SitemapUrl, ""))
       /\ responses' = Append(responses, resp)
       /\ IF GetFails(resp)
          THEN /\ log' = log \o log1
                           \o << Rec("ERROR", "error while parsing sitemap: "
                                               \o GetExceptionText(resp, SitemapUrl)),
                                 Rec("ERROR", "no URL fetched, program terminates") >>
               /\ urls' = <<>>
               /\ Exit(1)
               /\ UNCHANGED <<soup, idx>>
          ELSE /\ soup' = resp.doc
               /\ urls' = LocTexts(resp.doc.urls)
               /\ idx' = 0
               /\ IF ~IsIndex(urls')
                  THEN log' = log \o log1 /\ pc' = "return"
                  ELSE /\ log' = log \o log1 \o
                                 (IF args.verbose
                                  THEN <<Rec("INFO", "no URL found, checking for sitemap index...")>>
                                  ELSE <<>>)
                       /\ pc' = "children"
               /\ UNCHANGED exitCode
  /\ UNCHANGED <<prog, args, file, urls_list, written>>

\* get_sitemap_urls: one round of the loop over the <sitemap> entries
get_sitemap_urls_child(Resps) ==
  /\ prog = "parse_sitemap" /\ pc = "children" /\ idx < Len(soup.sitemaps)
  /\ LET entry == soup.sitemaps[idx + 1] IN
     IF ~HasLoc(entry)
     THEN UNCHANGED <<log, requests, responses, urls>>
     ELSE \E resp \in Resps :
            LET sitemap_child_url == entry.text
                log1 == IF args.verbose
                        THEN <<Rec("INFO", "processing child sitemap: " \o sitemap_child_url)>>
                        ELSE <<>>
            IN
            /\ requests' = Append(requests, Request("GET", sitemap_child_url, ""))
            /\ responses' = Append(responses, resp)
            /\ IF GetFails(resp)
               THEN /\ log' = log \o log1 \o
                              (IF args.verbose
                               THEN <<Rec("ERROR", "error processing child sitemap: "
                                                     \o sitemap_child_url \o ", error: "
                                                     \o GetExceptionText(resp, sitemap_child_url))>>
                               ELSE <<>>)
                    /\ UNCHANGED urls
               ELSE /\ log' = log \o log1
                    /\ urls' = urls \o LocTexts(resp.doc.urls)
  /\ idx' = idx + 1
  /\ UNCHANGED <<prog, pc, args, file, soup, urls_list, written, exitCode>>

\* get_sitemap_urls returns urls; main exits when the list is empty
get_sitemap_urls_return ==
  /\ prog = "parse_sitemap"
  /\ pc = "return" \/ (pc = "children" /\ idx = Len(soup.sitemaps))
  /\ LET log1 == IF args.verbose
                 THEN <<Rec("INFO", "extracted " \o ToString(Len(urls)) \o " URL from sitemap")>>
                 ELSE <<>>
     IN  IF urls = <<>>
         THEN /\ log' = log \o log1 \o <<Rec("ERROR", "no URL fetched, program terminates")>>
              /\ Exit(1)
         ELSE /\ log' = log \o log1
              /\ pc' = "save"
              /\ UNCHANGED exitCode
  /\ UNCHANGED <<prog, args, file, requests, responses, urls, soup, idx, urls_list, written>>

\* the URLs written one after the other, the line ends left out
RECURSIVE SaveTextNoNewline(_)
SaveTextNoNewline(list) ==
  IF list = <<>> THEN "" ELSE list[1] \o SaveTextNoNewline(Tail(list))

\* what save_urls_to_file writes for a list: url + '\n' for each
RECURSIVE SaveText(_)
SaveText(list) == IF list = <<>> THEN "" ELSE list[1] \o "\n" \o SaveText(Tail(list))

\* the preview of the first five URLs
Preview(list) ==
  IF list = <<>> THEN <<>>
  ELSE <<Rec("INFO", "first 5 URL preview:")>> \o
       [i \in 1..(IF Len(list) < 5 THEN Len(list) ELSE 5) |->
          Rec("INFO", ToString(i) \o ". " \o list[i])]

\* save_urls_to_file(urls, 'urls.txt') and, without --submit, the rest of main.
\* how: "ok"; "open" when open() raises (the file stays as it was); "write" when
\* a write raises after the file was truncated and k lines were written
save_urls_to_file(Hows) ==
  /\ prog = "parse_sitemap" /\ pc = "save"
  /\ \E how \in Hows :
       LET rest == IF args.submit THEN <<>> ELSE Finished IN
       CASE how = "ok" ->
              /\ file' = [exists |-> TRUE, text |-> SaveText(urls)]
              /\ written' = urls
              /\ log' = log \o <<Rec("INFO", "saved " \o ToString(Len(urls)) \o " URL to urls.txt")>>
                            \o Preview(urls) \o rest
         [] how = "open" ->
              /\ UNCHANGED <<file, written>>
              /\ log' = log \o <<Rec("ERROR", "error while saving URL to file: "
                                      \o "[Errno 13] Permission denied: 'urls.txt'")>> \o rest
         [] how = "write" ->
              /\ \E k \in 0..(Len(urls) - 1) :
                   file' = [exists |-> TRUE, text |-> SaveText(SubSeq(urls, 1, k))]
              /\ UNCHANGED written
              /\ log' = log \o <<Rec("ERROR", "error while saving URL to file: "
                                      \o "[Errno 28] No space left on device")>> \o rest
  /\ IF args.submit THEN pc' = "submit" /\ UNCHANGED exitCode ELSE Exit(0)
  /\ UNCHANGED <<prog, args, requests, responses, urls, soup, idx, urls_list>>

\* after parse_sitemap.py has written the file, one of the submission tools is
\* run on it as a new process
start_adapter(Adapters, Tokens, Verboses, Randoms) ==
  /\ prog = "parse_sitemap" /\ pc = "exit" /\ exitCode = 0
  /\ prog' \in Adapters
  /\ args' \in ArgsOf(prog', {args.site}, Tokens, Verboses, {FALSE}, Randoms)
  /\ pc' = "main"
  /\ log' = <<>> /\ requests' = <<>> /\ responses' = <<>>
  /\ urls' = <<>> /\ soup' = EmptyDoc /\ idx' = 0 /\ urls_list' = <<>>
  /\ exitCode' = NoExit
  /\ UNCHANGED <<file, written>>

\* parse_sitemap.py main: the call of submit_to_baidu and the rest of main
parse_sitemap_submit(Resps) ==
  /\ prog = "parse_sitemap" /\ pc = "submit"
  /\ \E resp \in Resps :
       LET o == parse_sitemap_submit_to_baidu(args.site, args.token, file, args.verbose, resp)
       IN  /\ log' = log \o o.log \o Finished
           /\ requests' = requests \o o.requests
           /\ responses' = responses \o o.responses
           /\ urls_list' = o.urls_list
  /\ Exit(0)
  /\ UNCHANGED <<prog, args, file, urls, soup, idx, written>>

----------------------------------------------------------------------------
(* Inputs and specifications                                               *)

\* --site, by default
DefaultSite == "https://www.bonan.online"

FileOf(text) == [exists |-> TRUE, text |-> text]

\* a process starts: nothing logged, nothing requested
InitWith(Ps, Sites, Tokens, Verboses, Submits, Randoms, Files) ==
  /\ prog \in Ps
  /\ args \in ArgsOf(prog, Sites, Tokens, Verboses, Submits, Randoms)
  /\ file \in Files
  /\ pc = "main"
  /\ log = <<>>
  /\ requests = <<>>
  /\ responses = <<>>
  /\ urls = <<>>
  /\ soup = EmptyDoc
  /\ idx = 0
  /\ urls_list = <<>>
  /\ written = <<>>
  /\ exitCode = NoExit

\* the documents with at most nU <url> and nS <sitemap> entries, a <loc> of
\* one of the given texts in each or none
Docs(UrlTexts, nU, SitemapTexts, nS) ==
  [urls : SeqsUpTo({NoLoc} \cup {Loc(t) : t \in UrlTexts}, nU),
   sitemaps : SeqsUpTo({NoLoc} \cup {Loc(t) : t \in SitemapTexts}, nS)]

\* what an error page may parse to
ErrorDoc == [urls |-> <<Loc("e1")>>, sitemaps |-> <<>>]

\* the answers to a GET: a failure, an error status, or one of the documents
GetResps(D) ==
  {Failure("connection"), Response(404, "", ErrorDoc)} \cup {Response(200, "", d) : d \in D}

\* the answers to a POST
PostResps ==
  { Response(200, "{success:1,remain:9}", EmptyDoc),
    Response(500, "{error:500,message:busy}", EmptyDoc),
    Failure("connection"), Failure("timeout") }

Progs == {"parse_sitemap", "submit_baidu", "submit_bing"}

Doc(url_entries, sitemap_entries) == [urls |-> url_entries, sitemaps |-> sitemap_entries]

\* a urlset, a urlset whose <loc> is empty, an index, an index entry without
\* <loc>, and a document without entries
CliDocs ==
  { Doc(<<Loc("u1")>>, <<>>), Doc(<<Loc("")>>, <<>>), Doc(<<>>, <<Loc("c1")>>),
    Doc(<<NoLoc>>, <<NoLoc>>), EmptyDoc }

CliFiles == {NoFile, FileOf(""), FileOf(" \n"), FileOf("a\nb\n")}

CliSites == {DefaultSite, " http://a.cn// ", "https://http://a.cn"}

\* no credential, a short one, and one longer than eight characters
CliTokens == {"", "QZ", "QZQZQZQZQ"}

Init == InitWith(Progs, CliSites, CliTokens, BOOLEAN, BOOLEAN, {0, 1}, CliFiles)

Next ==
  \/ submit_baidu_main
  \/ submit_baidu_submit(PostResps)
  \/ submit_bing_main
  \/ submit_bing_submit(PostResps)
  \/ parse_sitemap_main
  \/ get_sitemap_urls_top(GetResps(CliDocs))
  \/ get_sitemap_urls_child(GetResps(CliDocs))
  \/ get_sitemap_urls_return
  \/ save_urls_to_file({"ok", "open", "write"})
  \/ parse_sitemap_submit(PostResps)

\* the three command-line tools, each run once
Spec == Init /\ [][Next]_vars

----------------------------------------------------------------------------
(* What the claims read off a state                                        *)

IsPost(r) == r.method = "POST"

IsGet(r) == r.method = "GET"

NumPosts == Len(SelectSeq(requests, IsPost))

NumGets == Len(SelectSeq(requests, IsGet))

Logged(level, part) ==
  \E j \in 1..Len(log) : log[j].level = level /\ Contains(log[j].msg, part)

\* main reached its closing lines
RanToEnd ==
  /\ pc = "exit" /\ exitCode = 0
  /\ Len(log) >= 3 /\ log[Len(log) - 1].msg = "program finished"

\* the entry point called its submission function
SubmitCalled ==
  /\ pc = "exit" /\ exitCode = 0
  /\ prog = "parse_sitemap" => args.submit

\* the text after the first occurrence of mark in s ("" when there is none)
RECURSIVE After(_, _)
After(s, mark) ==
  IF Len(s) < Len(mark) THEN ""
  ELSE IF SubSeq(s, 1, Len(mark)) = mark THEN SubSeq(s, Len(mark) + 1, Len(s))
  ELSE After(SubSeq(s, 2, Len(s)), mark)

\* the text before the first occurrence of mark in s (all of s when there is none)
RECURSIVE Before(_, _)
Before(s, mark) ==
  IF Len(s) < Len(mark) THEN s
  ELSE IF SubSeq(s, 1, Len(mark)) = mark THEN ""
  ELSE SubSeq(s, 1, 1) \o Before(SubSeq(s, 2, Len(s)), mark)

\* the decoding of a query-string value, as the receiving server does it
RECURSIVE Unquote(_)
Unquote(s) ==
  IF s = "" THEN ""
  ELSE IF SubSeq(s, 1, 1) = "+" THEN " " \o Unquote(SubSeq(s, 2, Len(s)))
  ELSE IF SubSeq(s, 1, 1) = "%" /\ Len(s) >= 3
       THEN (CASE SubSeq(s, 2, 3) = "3A" -> ":"
               [] SubSeq(s, 2, 3) = "2F" -> "/"
               [] SubSeq(s, 2, 3) = "2A" -> "*"
               [] SubSeq(s, 2, 3) = "0A" -> "\n"
               [] OTHER -> SubSeq(s, 1, 3)) \o Unquote(SubSeq(s, 4, Len(s)))
       ELSE SubSeq(s, 1, 1) \o Unquote(SubSeq(s, 2, Len(s)))

\* the `site` query parameter of a request to the Baidu endpoint
SiteParam(url) == Unquote(Before(After(url, "?site="), "&"))

\* the mask the log may show for a credential
ExpectedMask(t) ==
  IF Len(t) <= 8 THEN "***"
  ELSE SubSeq(t, 1, 4) \o "***" \o SubSeq(t, Len(t) - 3, Len(t))

----------------------------------------------------------------------------
(* Claims checked under Spec                                               *)

\* C1: no log line contains the raw credential; the line that names the
\* credential shows '***' for a length of at most 8 and first 4 + '***' + last 4
\* for a longer one.
C1_NoRawCredentialInLog ==
  args.token # "" =>
    \A j \in 1..Len(log) :
      /\ ~Contains(log[j].msg, args.token)
      /\ Contains(log[j].msg, "(Token: ") =>
           After(log[j].msg, "(Token: ") = ExpectedMask(args.token) \o ")"
      /\ Contains(log[j].msg, "(API Key: ") =>
           After(log[j].msg, "(API Key: ") = ExpectedMask(args.token) \o ")"

\* C7: when the URL-list file holds no non-blank line, a submission function
\* that was called logged a warning and issued no HTTP POST.
C7_BlankFileNoRequest ==
  (SubmitCalled /\ file.exists /\ Words(file.text) = <<>>) =>
    (NumPosts = 0 /\ Logged("WARNING", "URL file is empty"))

MissingCredential == args.token = "" /\ (prog = "parse_sitemap" => args.submit)

\* C9: with the required credential missing the entry point exits non-zero from
\* main with no HTTP request issued; parse_sitemap exits non-zero when the
\* extraction returned no URL, the file is untouched then and no POST is issued.
C9_ExitCodes ==
  [][ /\ MissingCredential =>
           (pc = "main" /\ pc' = "exit" /\ exitCode' # 0 /\ exitCode' # NoExit
              /\ requests' = <<>>)
      /\ (prog = "parse_sitemap" /\ pc # "exit" /\ pc' = "exit" /\ urls' = <<>>
            /\ ~MissingCredential) =>
           (exitCode' # 0 /\ exitCode' # NoExit /\ NumPosts' = 0)
      /\ file' # file => (pc = "save" /\ urls # <<>>)
      /\ (prog = "parse_sitemap" /\ pc = "exit" /\ urls = <<>>) => UNCHANGED vars
    ]_vars

C9_Witness ==
  /\ prog = "parse_sitemap" /\ pc = "exit" /\ exitCode = 1
  /\ urls = <<>> /\ NumGets = 2 /\ NumPosts = 0
  /\ file = FileOf("a\nb\n") /\ args.submit /\ args.token # ""

\* C10: the `site` parameter of every POST to the Baidu endpoint is a bare host:
\* no scheme prefix, no trailing slash, unchanged by a second normalization, and
\* the same for both Baidu submission functions.
C10_BareHostSite ==
  \A i \in 1..Len(requests) :
    (IsPost(requests[i]) /\ Contains(requests[i].url, BaiduHost)) =>
      LET site == SiteParam(requests[i].url) IN
      /\ ~StartsWith(site, "http://") /\ ~StartsWith(site, "https://")
      /\ ~EndsWith(site, "/")
      /\ BaiduSite(site) = site
      /\ site = BaiduSite(args.site)

----------------------------------------------------------------------------
(* get_sitemap_urls over the sitemap documents                             *)

MaxUrls == 2

MaxSitemaps == 2

MaxChildUrls == 1

ExtractTops == GetResps(Docs({"u1", "u2"}, MaxUrls, {"c1", "c2"}, MaxSitemaps))

\* what a child URL may answer with: a urlset, a document that is itself an
\* index, or one with both kinds of entries
ChildDocs ==
  {Doc(l, <<>>) : l \in SeqsUpTo({Loc("u1"), Loc("u2")}, MaxChildUrls)}
    \cup {Doc(<<>>, <<Loc("c3")>>), Doc(<<NoLoc, Loc("u3")>>, <<Loc("c3")>>)}

ExtractChildren == GetResps(ChildDocs)

InitExtract ==
  InitWith({"parse_sitemap"}, {DefaultSite}, {""}, BOOLEAN, {FALSE}, {0}, {NoFile})

NextExtract ==
  \/ parse_sitemap_main
  \/ get_sitemap_urls_top(ExtractTops)
  \/ get_sitemap_urls_child(ExtractChildren)
  \/ get_sitemap_urls_return
  \/ save_urls_to_file({"ok"})

\* parse_sitemap.py without --submit
SpecExtract == InitExtract /\ [][NextExtract]_vars

\* the answer to the top-level GET is a failure or an error status
TopFailed == responses[1].error # "" \/ responses[1].status >= 400

\* get_sitemap_urls has returned to main
Returned == NumGets >= 1 /\ pc \in {"save", "submit", "exit"}

\* the <loc> texts of the entries that have one, in order
RECURSIVE TextsWithLoc(_)
TextsWithLoc(entries) ==
  IF entries = <<>> THEN <<>>
  ELSE (IF Head(entries).loc THEN <<Head(entries).text>> ELSE <<>>)
         \o TextsWithLoc(Tail(entries))

\* what the answers i..Len(responses) contribute: nothing for a failed fetch,
\* the url/loc texts of the document otherwise
RECURSIVE Contributed(_)
Contributed(i) ==
  IF i > Len(responses) THEN <<>>
  ELSE (IF responses[i].error # "" \/ responses[i].status >= 400
        THEN <<>> ELSE TextsWithLoc(responses[i].doc.urls)) \o Contributed(i + 1)

\* C2 as stated: an empty result is returned only for a document that was
\* fetched; a failed top-level fetch is not answered with a return value.
C2_EmptyOnlyWhenFetched == (Returned /\ urls = <<>>) => ~TopFailed

\* C2 as amended: a failed top-level GET (network failure or 4xx/5xx) makes
\* get_sitemap_urls log an error and return the empty list after that one GET,
\* and main exits with 1; the error record is logged in no other case.
C2_FailedFetchReturnsEmpty ==
  NumGets >= 1 =>
    /\ TopFailed =>
         /\ urls = <<>> /\ Len(requests) = 1
         /\ pc = "exit" /\ exitCode = 1
         /\ Logged("ERROR", "error while parsing sitemap")
    /\ ~TopFailed => ~Logged("ERROR", "error while parsing sitemap")

C2_Witness ==
  /\ NumGets = 1 /\ responses[1].status = 404 /\ Returned /\ urls = <<>>

\* C3: for a fetched document without url/loc entries, the child URLs are
\* fetched one by one in index order, once each; urls is the concatenation in
\* that order of the url/loc texts of the children that were fetched, a failed
\* child contributing nothing; once the loop is over there were 1 + M GETs.
C3_IndexConcatenation ==
  (NumGets >= 1 /\ ~TopFailed /\ TextsWithLoc(responses[1].doc.urls) = <<>>) =>
    LET locs == TextsWithLoc(responses[1].doc.sitemaps)
        m == Len(requests) - 1
    IN  /\ m <= Len(locs)
        /\ \A j \in 1..m : requests[j + 1] = Request("GET", locs[j], "")
        /\ urls = Contributed(2)
        /\ pc # "children" => m = Len(locs)

C3_Witness ==
  /\ pc = "exit" /\ Len(requests) = 3
  /\ requests[2].url = "c2" /\ requests[3].url = "c1"
  /\ responses[2].error = "connection"
  /\ responses[3].error = "" /\ responses[3].status = 200
  /\ responses[3].doc = Doc(<<NoLoc, Loc("u3")>>, <<Loc("c3")>>)
  /\ urls = <<"u3">>

\* C4: for a fetched document whose url entries all have a loc, urls is the
\* sequence of those loc texts in document order; with at least one of them
\* the top-level GET is the only request, sitemap entries or not.
C4_UrlsetDocumentOrder ==
  (NumGets >= 1 /\ ~TopFailed) =>
    LET doc == responses[1].doc
        N == Len(doc.urls)
    IN  (\A i \in 1..N : doc.urls[i].loc) =>
          /\ N >= 1 => /\ urls = [i \in 1..N |-> doc.urls[i].text]
                       /\ Len(requests) = 1
          /\ (N = 0 /\ doc.sitemaps = <<>>) => (urls = <<>> /\ Len(requests) = 1)

C4_Witness ==
  /\ pc = "exit" /\ exitCode = 0 /\ Len(requests) = 1
  /\ responses[1].doc = Doc(<<Loc("u2"), Loc("u1")>>, <<Loc("c1")>>)
  /\ urls = <<"u2", "u1">>

----------------------------------------------------------------------------
(* The random sample of submit_baidu.py                                    *)

MaxFileUrls == 3

MaxRandom == 3

\* the files that hold at most MaxFileUrls lines, repeated lines included
SampleFiles == {FileOf(SaveText(l)) : l \in SeqsUpTo({"a", "b"}, MaxFileUrls)}

InitSample ==
  InitWith({"submit_baidu"}, {DefaultSite}, {"QZ"}, BOOLEAN, {FALSE}, 0..MaxRandom, SampleFiles)

NextSample == submit_baidu_main \/ submit_baidu_submit(PostResps)

\* submit_baidu.py over URL lists and values of --random
SpecSample == InitSample /\ [][NextSample]_vars

\* the list the file holds: its non-blank lines, stripped
OriginalList == StripNonBlank(Split(file.text, "\n"))

Count(list, x) == Cardinality({j \in 1..Len(list) : list[j] = x})

\* C5 as stated: with sampleCount < len(urls) the body of the POST holds exactly
\* sampleCount URLs, each one of the original list, none of them twice.
C5_SampleExactNoDuplicate ==
  \A i \in 1..Len(requests) :
    (IsPost(requests[i]) /\ args.random < Len(OriginalList)) =>
      LET lines == Split(requests[i].body, "\n") IN
      /\ Len(lines) = args.random
      /\ \A j \in 1..Len(lines) : \E n \in 1..Len(OriginalList) : lines[j] = OriginalList[n]
      /\ \A j, n \in 1..Len(lines) : j # n => lines[j] # lines[n]

\* C5 as amended: with 0 < sampleCount < len(urls) the body holds exactly
\* sampleCount URLs taken from distinct positions of the original list, so a URL
\* is in the body at most as often as in the list; with sampleCount <= 0 or
\* sampleCount >= len(urls) the body is the whole list, in order.
C5_SampleDistinctPositions ==
  \A i \in 1..Len(requests) :
    IsPost(requests[i]) =>
      LET lines == Split(requests[i].body, "\n")
          k == args.random
      IN  IF 0 < k /\ k < Len(OriginalList)
          THEN /\ Len(lines) = k
               /\ \A j \in 1..Len(lines) :
                    /\ Count(OriginalList, lines[j]) >= 1
                    /\ Count(lines, lines[j]) <= Count(OriginalList, lines[j])
          ELSE lines = OriginalList

C5_Witness ==
  /\ NumPosts = 1 /\ args.random = 2
  /\ OriginalList = <<"a", "b", "a">>
  /\ requests[1].body = "a\na"

----------------------------------------------------------------------------
(* The URL-list file written by parse_sitemap.py and read by an adapter    *)

MaxRtUrls == 2

\* loc texts: plain, empty, blank, with surrounding white space or a line break
RtTexts == {"a", "b", "", " ", " a", "b ", "a\nb", "\na\n"}

RtTops ==
  {Response(200, "", Doc(l, <<>>)) : l \in SeqsUpTo({Loc(t) : t \in RtTexts}, MaxRtUrls)}

OkResps == {Response(200, "{success:1,remain:9}", EmptyDoc)}

InitRoundTrip ==
  InitWith({"parse_sitemap"}, {DefaultSite}, {""}, {FALSE}, {FALSE}, {0}, {NoFile})

NextRoundTrip ==
  \/ parse_sitemap_main
  \/ get_sitemap_urls_top(RtTops)
  \/ get_sitemap_urls_return
  \/ save_urls_to_file({"ok"})
  \/ start_adapter({"submit_baidu", "submit_bing"}, {"QZ"}, {FALSE}, {0})
  \/ submit_baidu_main
  \/ submit_baidu_submit(OkResps)
  \/ submit_bing_main
  \/ submit_bing_submit(OkResps)

\* parse_sitemap.py, then a submission tool on the file it wrote
SpecRoundTrip == InitRoundTrip /\ [][NextRoundTrip]_vars

\* an adapter has read the file that save_urls_to_file wrote
ReadBack == prog \in {"submit_baidu", "submit_bing"} /\ pc = "exit" /\ written # <<>>

\* non-empty, no line break, no white space at either end
CleanUrl(u) ==
  /\ u # ""
  /\ \A i \in 1..Len(u) : SubSeq(u, i, i) # "\n"
  /\ SubSeq(u, 1, 1) # " " /\ SubSeq(u, Len(u), Len(u)) # " "

\* C6 as stated: the adapter reads back the N strings that were written, in
\* the same order, whatever the loc texts are.
C6_RoundTripAnyText == ReadBack => urls_list = written

\* C6 as amended: when every written URL is non-empty and has no line break and
\* no leading or trailing white space, the adapter reads back the same N
\* strings in the same order.
C6_RoundTripCleanUrls ==
  (ReadBack /\ \A i \in 1..Len(written) : CleanUrl(written[i])) => urls_list = written

C6_Witness ==
  /\ ReadBack /\ prog = "submit_bing"
  /\ written = <<"b", "a">> /\ urls_list = <<"b", "a">> /\ NumPosts = 1

----------------------------------------------------------------------------
(* The combined run of parse_sitemap.py --submit                           *)

\* the text this run's URL list makes, one URL per line in extraction order
RECURSIVE OnePerLine(_)
OnePerLine(list) ==
  IF list = <<>> THEN "" ELSE list[1] \o "\n" \o OnePerLine(Tail(list))

\* C11: in parse_sitemap.py main with --submit, the body of every POST to
\* Baidu is exactly the URLs that this run's get_sitemap_urls returned, one
\* per line in extraction order; when save_urls_to_file fails to write the
\* file, nothing of a file left by an earlier run is submitted.
C11_PostBodyIsThisRunsUrls ==
  prog = "parse_sitemap" =>
    \A i \in 1..Len(requests) :
      IsPost(requests[i]) => requests[i].body = OnePerLine(urls)

====
